---------------------------- MODULE Spec2Model ----------------------------
(***************************************************************************)
(* Model of SFHandle's SFH class (src/sfh.py): a record of three parallel  *)
(* series (lb_time, sfh, err), the cached result of the last resampling    *)
(* (interp_lb_time, interp_sfh, interp_err), the `integral` property, and  *)
(* the methods integrated_sfh_at and interpolate_sfh.                      *)
(*                                                                         *)
(* Numbers.  Look-back times and query times are integers (exact           *)
(* arithmetic; floating-point rounding is not modelled).  A rate, an       *)
(* error, a fill value and every computed value is a float record          *)
(* [nan, val]: NaN is a value of its own that every arithmetic operation   *)
(* propagates, as numpy does.                                              *)
(*                                                                         *)
(* An Optional[NDArray] field is None == <<>> or Some(a) == <<a>>.         *)
(*                                                                         *)
(* Observation variables: query is the last integration query (operation,  *)
(* argument, returned value); call is the last interpolate_sfh call (its   *)
(* arguments, whether it raised, the pair it returned); ncalls counts the  *)
(* interpolate_sfh calls made, and owner gives, for each cached field, the *)
(* number of the call that assigned it (0: none).                          *)
(*                                                                         *)
(* galaxy is the catalogue row the record is built from, when it is built  *)
(* from one: its nine time-bin, rate-bin and rate-error-bin columns and    *)
(* its integrated-mass column.                                             *)
(*                                                                         *)
(* Four specifications: SpecIntegrate (integral and integrated_sfh_at on   *)
(* records whose rates may be NaN), SpecFirstCall (one interpolate_sfh     *)
(* call on a fresh record), SpecResample (sequences of interpolate_sfh     *)
(* calls, returning or raising, on one record) and SpecCatalogue           *)
(* (cigale_sfh on a catalogue row, and the record built from its result).  *)
(***************************************************************************)
EXTENDS Integers, Sequences, FiniteSets

VARIABLES lb_time, sfh, err, interp_lb_time, interp_sfh, interp_err, query, call, ncalls, owner, galaxy

vars == <<lb_time, sfh, err, interp_lb_time, interp_sfh, interp_err, query, call, ncalls, owner, galaxy>>

\* the record's own series and its cached resampling
series == <<lb_time, sfh, err>>

cache == <<interp_lb_time, interp_sfh, interp_err>>

---------------------------------------------------------------------------
(* Bounds of the model *)

\* longest record of the integration and first-call specifications
MaxLen == 3
\* largest look-back time of an edge (edges are drawn from 0..MaxTime)
MaxTime == 3
\* largest rate value (rates are drawn from 0..MaxRate and NaN)
MaxRate == 2
\* longest record of the resampling specification (sequences of calls)
MaxLenR == 2
\* longest query grid of a resampling call
MaxGrid == 2
\* largest look-back time of an edge of the resampling specification
MaxTimeR == 2
\* number of interpolate_sfh calls made on one record
MaxCalls == 2
\* largest value a catalogue column is changed to (see Edited)
MaxColumn == 1
\* largest integrated mass of a catalogue row
MaxMass == 2

\* np.nansum(...) * 1e6: Myr -> yr
Myr == 1000000

\* the number of bins of a catalogue row: the length of the tuples yy, yy_err, xx
NBins == 9

---------------------------------------------------------------------------
(* Floats with NaN *)

F(v) == [nan |-> FALSE, val |-> v]

NaN == [nan |-> TRUE, val |-> 0]

\* a * b on floats: NaN if either operand is NaN
FMul(a, b) == IF a.nan \/ b.nan THEN NaN ELSE F(a.val * b.val)

\* a + b on floats: NaN if either operand is NaN
FAdd(a, b) == IF a.nan \/ b.nan THEN NaN ELSE F(a.val + b.val)

\* a == b on floats: NaN compares unequal to everything, itself included
FEq(a, b) == ~a.nan /\ ~b.nan /\ a.val = b.val

\* a > b and a >= b on floats: any comparison with NaN is False
FGt(a, b) == ~a.nan /\ ~b.nan /\ a.val > b.val

FGe(a, b) == ~a.nan /\ ~b.nan /\ a.val >= b.val

---------------------------------------------------------------------------
(* numpy array operations used by the class *)

\* a[::-1]
Reverse(a) == [i \in 1..Len(a) |-> a[Len(a) + 1 - i]]

\* a[:-1]
DropLast(a) == SubSeq(a, 1, Len(a) - 1)

\* a[1:]
DropFirst(a) == SubSeq(a, 2, Len(a))

\* a - b, element by element, on arrays of times
SubArr(a, b) == [i \in 1..Len(a) |-> a[i] - b[i]]

\* rates * tstep, element by element: a float array times an array of widths
MulArr(rates, tstep) == [i \in 1..Len(rates) |-> FMul(rates[i], F(tstep[i]))]

\* np.append(x, a): the scalar x followed by the array a
NpAppend(x, a) == <<x>> \o a

\* a[mask]: the elements of a where the boolean array mask is True, in order
RECURSIVE Select(_, _)
Select(a, mask) == IF Len(a) = 0 THEN <<>> ELSE (IF Head(mask) THEN <<Head(a)>> ELSE <<>>) \o Select(SubSeq(a, 2, Len(a)), SubSeq(mask, 2, Len(mask)))

\* np.any(mask)
NpAny(mask) == \E i \in 1..Len(mask) : mask[i]

\* mutant, np.sum(a): the plain sum of a float array, one NaN element makes it NaN
RECURSIVE NpSum(_)
NpSum(a) == IF Len(a) = 0 THEN F(0) ELSE FAdd(Head(a), NpSum(SubSeq(a, 2, Len(a))))

\* np.nansum(a): the sum of a float array with every NaN element taken as zero
RECURSIVE NpNanSum(_)
NpNanSum(a) == IF Len(a) = 0 THEN F(0) ELSE FAdd(IF Head(a).nan THEN F(0) ELSE Head(a), NpNanSum(SubSeq(a, 2, Len(a))))

---------------------------------------------------------------------------
(* Optional fields *)

None == <<>>

Some(a) == <<a>>

---------------------------------------------------------------------------
(* SFH.integral and SFH.integrated_sfh_at, as functions of the record *)

\* mutant: the two slices subtracted the other way round
IntegralTstep_Swapped(self_lb_time) == SubArr(DropFirst(Reverse(self_lb_time)), DropLast(Reverse(self_lb_time)))

\* tstep of `integral`: lb_time[::-1][:-1] - lb_time[::-1][1:]
IntegralTstep(self_lb_time) == SubArr(DropLast(Reverse(self_lb_time)), DropFirst(Reverse(self_lb_time)))

\* mutant: the rates sliced as sfh[::-1][1:], the rate of the younger edge of each gap
integral_YoungerEdge(self_lb_time, self_sfh) == FMul(NpNanSum(MulArr(DropFirst(Reverse(self_sfh)), IntegralTstep(self_lb_time))), F(Myr))

\* np.nansum(self.sfh[::-1][:-1] * tstep) * 1e6
integral(self_lb_time, self_sfh) == FMul(NpNanSum(MulArr(DropLast(Reverse(self_sfh)), IntegralTstep(self_lb_time))), F(Myr))

\* mutant: the comparison turned round
OlderMask_Younger(self_lb_time, t) == [i \in 1..Len(self_lb_time) |-> self_lb_time[i] <= t]

\* mask = self.lb_time >= lb_time
OlderMask(self_lb_time, t) == [i \in 1..Len(self_lb_time) |-> self_lb_time[i] >= t]

\* mutant: the partial bin between the query time and the first selected edge left out
WindowTstep_NoPartialBin(sel_time, t) == NpAppend(0, SubArr(DropFirst(sel_time), DropLast(sel_time)))

\* mutant: the gap put in front measured from the last selected edge
WindowTstep_LastEdge(sel_time, t) == NpAppend(sel_time[Len(sel_time)] - t, SubArr(DropFirst(sel_time), DropLast(sel_time)))

\* tstep of integrated_sfh_at: the gaps between the selected edges, with the
\* gap from the query time to the first selected edge put in front
WindowTstep(sel_time, t) == NpAppend(sel_time[1] - t, SubArr(DropFirst(sel_time), DropLast(sel_time)))

\* np.nansum(self.sfh[mask] * tstep) * 1e6
WindowMass(self_lb_time, self_sfh, mask, t) == FMul(NpNanSum(MulArr(Select(self_sfh, mask), WindowTstep(Select(self_lb_time, mask), t))), F(Myr))

\* integrated_sfh_at(lb_time = t): 0.0 when no edge is selected
integrated_sfh_at(self_lb_time, self_sfh, t) == IF ~NpAny(OlderMask(self_lb_time, t)) THEN F(0) ELSE WindowMass(self_lb_time, self_sfh, OlderMask(self_lb_time, t), t)

---------------------------------------------------------------------------
(* Inputs *)

\* arrays of length n over S
Arrays(S, n) == [1..n -> S]

NonDecreasing(a) == \A i \in 1..Len(a) - 1 : a[i] <= a[i + 1]

StrictlyIncreasing(a) == \A i \in 1..Len(a) - 1 : a[i] < a[i + 1]

\* the look-back-time series of a record of n edges: ascending edges
TimeArrays(n, maxTime) == {a \in Arrays(0..maxTime, n) : NonDecreasing(a)}

\* rates of the integration specification: NaN and 0..MaxRate
RateVals == {NaN} \cup {F(v) : v \in 0..MaxRate}

\* the rates of a record of n edges in the resampling specifications: the rate of
\* an edge is its number, so a resampled value names the edge it was taken from
RateSeries(n) == [i \in 1..n |-> F(i)]

\* the errors of a record of n edges: n different values, none of them a rate
ErrSeries(n) == [i \in 1..n |-> F(n + i)]

\* query times: from before the youngest possible edge to beyond the oldest
QueryTimes == -1..MaxTime + 1

NoQuery == [op |-> "none", t |-> 0, ret |-> F(0)]

NoOwner == [interp_lb_time |-> 0, interp_sfh |-> 0, interp_err |-> 0]

\* no catalogue row: the record was not built from a catalogue
NoRow == [time_bin |-> <<>>, sfr_bin |-> <<>>, sfr_bin_err |-> <<>>, integrated |-> F(0)]

NoCall == [grid |-> <<>>, kind |-> "none", bounds_error |-> FALSE, fill_value |-> F(0), raised |-> FALSE, ret |-> <<>>]

---------------------------------------------------------------------------
(* The integration specification: a record is constructed, then its       *)
(* integral is read and integrated_sfh_at is called, in any order.        *)

\* SFH.__init__(lb_time, sfh, err): the three series are stored, the cache is None
InitIntegrate == /\ \E n \in 0..MaxLen : /\ lb_time \in TimeArrays(n, MaxTime)
                                         /\ sfh \in Arrays(RateVals, n)
                                         /\ err = ErrSeries(n)
                 /\ interp_lb_time = None
                 /\ interp_sfh = None
                 /\ interp_err = None
                 /\ query = NoQuery
                 /\ call = NoCall
                 /\ ncalls = 0
                 /\ owner = NoOwner
                 /\ galaxy = NoRow

\* reading the property SFH.integral
GetIntegral == /\ query' = [op |-> "integral", t |-> 0, ret |-> integral(lb_time, sfh)]
               /\ UNCHANGED <<series, cache, call, ncalls, owner, galaxy>>

\* calling SFH.integrated_sfh_at(t)
CallIntegratedSfhAt == \E t \in QueryTimes : /\ query' = [op |-> "integrated_sfh_at", t |-> t, ret |-> integrated_sfh_at(lb_time, sfh, t)]
                                             /\ UNCHANGED <<series, cache, call, ncalls, owner, galaxy>>

NextIntegrate == GetIntegral \/ CallIntegratedSfhAt

SpecIntegrate == InitIntegrate /\ [][NextIntegrate]_vars

---------------------------------------------------------------------------
(* scipy.interpolate.interp1d, as SFH._interpolate uses it.  The series of  *)
(* a record are ascending, so interp1d's stable argsort of old_x is the     *)
(* identity.  The kinds modelled are the two step kinds, 'next' and         *)
(* 'previous'.                                                              *)

\* mutant: the edges at or before q counted, so that a query on an edge takes the
\* value of the edge after it
NextIndex_PastEdge(old_x, q) == Cardinality({i \in 1..Len(old_x) : old_x[i] <= q}) + 1

\* kind = 'next': searchsorted(nextafter(x, inf), q, side='right') is the number of
\* edges strictly below q; clipped to the last edge; 1-based here
NextIndex(old_x, q) == Cardinality({i \in 1..Len(old_x) : old_x[i] < q}) + 1

\* kind = 'previous': searchsorted(nextafter(x, -inf), q, side='left') is the number
\* of edges at or below q, clipped to at least 1; the value is the edge before it
PreviousIndex(old_x, q) == Cardinality({i \in 1..Len(old_x) : old_x[i] <= q})

Clip(i, lo, hi) == IF i < lo THEN lo ELSE IF i > hi THEN hi ELSE i

\* interp1d._check_bounds: q below x[0] or above x[-1]
OutOfBounds(old_x, q) == q < old_x[1] \/ q > old_x[Len(old_x)]

\* the step value at q before the out-of-bounds points are filled
StepValue(old_x, old_y, kind, q) == old_y[Clip(IF kind = "next" THEN NextIndex(old_x, q) ELSE PreviousIndex(old_x, q), 1, Len(old_x))]

\* interp1d(old_x, old_y, ...) raises ValueError when x and y differ in length
\* or x is empty; calling it raises ValueError when bounds_error is set and a
\* query point is out of bounds
Interp1dRaises(new_x, old_x, old_y, bounds_error) == \/ Len(old_x) # Len(old_y)
                                                     \/ Len(old_x) < 1
                                                     \/ (bounds_error /\ \E k \in 1..Len(new_x) : OutOfBounds(old_x, new_x[k]))

\* the evaluated array: fill_value at the out-of-bounds points
Interp1dValues(new_x, old_x, old_y, kind, fill_value) == [k \in 1..Len(new_x) |-> IF OutOfBounds(old_x, new_x[k]) THEN fill_value ELSE StepValue(old_x, old_y, kind, new_x[k])]

\* SFH._interpolate(new_x, old_x, old_y, **kwargs): the exception or the array
_interpolate(new_x, old_x, old_y, kind, bounds_error, fill_value) == IF Interp1dRaises(new_x, old_x, old_y, bounds_error) THEN [raised |-> TRUE, val |-> <<>>] ELSE [raised |-> FALSE, val |-> Interp1dValues(new_x, old_x, old_y, kind, fill_value)]

\* mutant: np.unique(lb_time), the grid sorted and without duplicates
RECURSIVE NpArray_Unique(_)
NpArray_Unique(a) == IF Len(a) = 0 THEN <<>> ELSE LET m == CHOOSE x \in {a[i] : i \in 1..Len(a)} : \A i \in 1..Len(a) : x <= a[i] IN <<m>> \o NpArray_Unique(SelectSeq(a, LAMBDA x : x # m))

\* np.array(lb_time): a copy of the grid, element for element
NpArray(a) == a

---------------------------------------------------------------------------
(* The resampling specification: a record is constructed, then             *)
(* interpolate_sfh is called any number of times with any grid and          *)
(* parameters.                                                              *)

\* the grid values: from below the youngest possible edge to above the oldest
GridTimes == -1..MaxTimeR + 1

Grids == UNION {Arrays(GridTimes, n) : n \in 0..MaxGrid}

Kinds == {"next", "previous"}

FillVals == {F(0), NaN}

\* SFH.__init__(lb_time, sfh, err): the three series are stored, the cache is None
InitResample == /\ \E n \in 0..MaxLenR : /\ lb_time \in TimeArrays(n, MaxTimeR)
                                        /\ sfh = RateSeries(n)
                                        /\ err = ErrSeries(n)
                /\ interp_lb_time = None
                /\ interp_sfh = None
                /\ interp_err = None
                /\ query = NoQuery
                /\ call = NoCall
                /\ ncalls = 0
                /\ owner = NoOwner
                /\ galaxy = NoRow

\* SFH.interpolate_sfh(grid, kind, bounds_error, fill_value): the grid is stored
\* first; then the rates are interpolated and stored; then the errors; an exception
\* of either interpolation leaves the method at that point
InterpolateSfh(grid, kind, bounds_error, fill_value) == LET r_sfh == _interpolate(grid, lb_time, sfh, kind, bounds_error, fill_value)
                                                            r_err == _interpolate(grid, lb_time, err, kind, bounds_error, fill_value)
                                                            raised == r_sfh.raised \/ r_err.raised
                                                        IN /\ ncalls' = ncalls + 1
                                                           /\ interp_lb_time' = Some(NpArray(grid))
                                                           /\ interp_sfh' = IF r_sfh.raised THEN interp_sfh ELSE Some(r_sfh.val)
                                                           /\ interp_err' = IF raised THEN interp_err ELSE Some(r_err.val)
                                                           /\ owner' = [interp_lb_time |-> ncalls', interp_sfh |-> IF r_sfh.raised THEN owner.interp_sfh ELSE ncalls', interp_err |-> IF raised THEN owner.interp_err ELSE ncalls']
                                                           /\ call' = [grid |-> grid, kind |-> kind, bounds_error |-> bounds_error, fill_value |-> fill_value, raised |-> raised, ret |-> IF raised THEN <<>> ELSE <<interp_sfh'[1], interp_err'[1]>>]
                                                           /\ UNCHANGED <<series, query, galaxy>>

\* any call of interpolate_sfh, as long as fewer than MaxCalls were made
CallInterpolateSfh == ncalls < MaxCalls /\ \E grid \in Grids, kind \in Kinds, bounds_error \in BOOLEAN, fill_value \in FillVals : InterpolateSfh(grid, kind, bounds_error, fill_value)

NextResample == CallInterpolateSfh

SpecResample == InitResample /\ [][NextResample]_vars

---------------------------------------------------------------------------
(* The first-call specification: a record of up to MaxLen edges is          *)
(* constructed and interpolate_sfh is called on it once.                    *)

FirstGridTimes == -1..MaxTime + 1

FirstGrids == UNION {Arrays(FirstGridTimes, n) : n \in 0..MaxGrid}

InitFirstCall == /\ \E n \in 0..MaxLen : /\ lb_time \in TimeArrays(n, MaxTime)
                                         /\ sfh = RateSeries(n)
                                         /\ err = ErrSeries(n)
                 /\ interp_lb_time = None
                 /\ interp_sfh = None
                 /\ interp_err = None
                 /\ query = NoQuery
                 /\ call = NoCall
                 /\ ncalls = 0
                 /\ owner = NoOwner
                 /\ galaxy = NoRow

\* the first call of interpolate_sfh on the record
FirstInterpolateSfh == ncalls = 0 /\ \E grid \in FirstGrids, kind \in Kinds, bounds_error \in BOOLEAN, fill_value \in FillVals : InterpolateSfh(grid, kind, bounds_error, fill_value)

NextFirstCall == FirstInterpolateSfh

SpecFirstCall == InitFirstCall /\ [][NextFirstCall]_vars

---------------------------------------------------------------------------
(* utilities.cigale_sfh, and the catalogue specification: cigale_sfh is     *)
(* called on a catalogue row and a record is constructed from the three     *)
(* arrays it returns.  A row is a record of its columns: time_bin[i] is     *)
(* the column 'bayes.sfh.time_bin<i>', sfr_bin[i] is 'bayes.sfh.sfr_bin<i>',*)
(* sfr_bin_err[i] is 'bayes.sfh.sfr_bin<i>_err' and integrated is           *)
(* 'bayes.sfh.integrated'.                                                  *)

\* np.array(list) * scalar
ScaleArr(a, scalar) == [i \in 1..Len(a) |-> FMul(a[i], scalar)]

\* [galaxy[c] for c in columns]: the values of the NBins columns, in the order of
\* the tuple of column names
Columns(column) == [i \in 1..NBins |-> column[i]]

\* mutant: after the first rate-bin value, the time-bin values 2..NBins in the
\* place of the rate-bin values
cigale_sfh_TimeProxies(row) == <<(<<0>> \o Columns(row.time_bin)), ScaleArr(<<row.sfr_bin[1]>> \o [i \in 1..NBins - 1 |-> F(row.time_bin[i + 1])], row.integrated), ScaleArr(<<row.sfr_bin_err[1]>> \o Columns(row.sfr_bin_err), row.integrated)>>

\* cigale_sfh(galaxy): x is 0 and the time-bin columns; y is the first rate-bin
\* column and then every rate-bin column, times the integrated mass; y_err is
\* the first rate-error column (galaxy[yy_err][0]) and then every rate-error
\* column, times the integrated mass
cigale_sfh(row) == <<(<<0>> \o Columns(row.time_bin)), ScaleArr(<<row.sfr_bin[1]>> \o Columns(row.sfr_bin), row.integrated), ScaleArr(<<row.sfr_bin_err[1]>> \o Columns(row.sfr_bin_err), row.integrated)>>

\* a row whose columns all hold different numbers, so that a returned value names
\* the column it was taken from
BaseTimeBin == [i \in 1..NBins |-> i]

BaseSfrBin == [i \in 1..NBins |-> F(NBins + i)]

BaseSfrBinErr == [i \in 1..NBins |-> F(2 * NBins + i)]

\* the values a rate or rate-error column is changed to
ColumnVals == {NaN} \cup {F(v) : v \in 0..MaxColumn}

\* the columns `base`, and `base` with one column changed to a value of S
Edited(base, S) == {base} \cup {[base EXCEPT ![i] = v] : i \in 1..NBins, v \in S}

\* the catalogue rows
Rows == [time_bin : Edited(BaseTimeBin, 0..MaxColumn), sfr_bin : Edited(BaseSfrBin, ColumnVals), sfr_bin_err : Edited(BaseSfrBinErr, ColumnVals), integrated : {F(m) : m \in 0..MaxMass}]

\* a row is read from the catalogue; no record exists yet
InitCatalogue == /\ galaxy \in Rows
                 /\ lb_time = <<>>
                 /\ sfh = <<>>
                 /\ err = <<>>
                 /\ interp_lb_time = None
                 /\ interp_sfh = None
                 /\ interp_err = None
                 /\ query = NoQuery
                 /\ call = NoCall
                 /\ ncalls = 0
                 /\ owner = NoOwner

\* res = utilities.cigale_sfh(row)
CallCigaleSfh == /\ query.op = "none"
                 /\ query' = [op |-> "cigale_sfh", t |-> 0, ret |-> cigale_sfh(galaxy)]
                 /\ UNCHANGED <<series, cache, call, ncalls, owner, galaxy>>

\* SFH(res[0], res[1], res[2]): the record built from the three returned arrays
ConstructFromCatalogue == /\ query.op = "cigale_sfh"
                          /\ lb_time = <<>>
                          /\ lb_time' = query.ret[1]
                          /\ sfh' = query.ret[2]
                          /\ err' = query.ret[3]
                          /\ interp_lb_time' = None
                          /\ interp_sfh' = None
                          /\ interp_err' = None
                          /\ UNCHANGED <<query, call, ncalls, owner, galaxy>>

NextCatalogue == CallCigaleSfh \/ ConstructFromCatalogue

SpecCatalogue == InitCatalogue /\ [][NextCatalogue]_vars

---------------------------------------------------------------------------
(* Vocabulary of the properties *)

NoNaN(rates) == \A i \in 1..Len(rates) : ~rates[i].nan

NonNegative(rates) == \A i \in 1..Len(rates) : FGe(rates[i], F(0))

AllPositive(rates) == \A i \in 1..Len(rates) : FGt(rates[i], F(0))

\* the width of the gap that ends at edge i (0-based i-1): time[i] - time[i-1]
Gap(time, i) == time[i] - time[i - 1]

\* SUM over the edges 2..n (0-based 1..n-1) of rate at the edge * the gap ending at it,
\* the terms with a NaN rate left out
RECURSIVE OlderEdgeSum(_, _, _)
OlderEdgeSum(time, rates, n) == IF n < 2 THEN 0 ELSE OlderEdgeSum(time, rates, n - 1) + (IF rates[n].nan THEN 0 ELSE rates[n].val * Gap(time, n))

\* SUM over the same gaps with the rate of the younger edge of each gap
RECURSIVE YoungerEdgeSum(_, _, _)
YoungerEdgeSum(time, rates, n) == IF n < 2 THEN 0 ELSE YoungerEdgeSum(time, rates, n - 1) + (IF rates[n - 1].nan THEN 0 ELSE rates[n - 1].val * Gap(time, n))

\* the edges integrated_sfh_at(t) selects
Selected(time, t) == {i \in 1..Len(time) : time[i] >= t}

\* the first selected edge
FirstSelected(time, t) == CHOOSE i \in Selected(time, t) : \A j \in Selected(time, t) : i <= j

\* SUM over the selected edges among 1..n of rate * width, where the width of the
\* first selected edge is its distance to t and the width of any other is the gap
\* that ends at it; the terms with a NaN rate left out
RECURSIVE WindowSum(_, _, _, _)
WindowSum(time, rates, t, n) == IF n < 1 THEN 0 ELSE WindowSum(time, rates, t, n - 1) + (IF n \notin Selected(time, t) \/ rates[n].nan THEN 0 ELSE rates[n].val * (IF n = FirstSelected(time, t) THEN time[n] - t ELSE Gap(time, n)))

---------------------------------------------------------------------------
(* Properties of the integration specification *)

\* C1: for a record of N >= 1 edges whose rates are numbers, `integral` is
\* 1e6 * SUM over i = 1..N-1 (0-based) of rate[i] * (time[i] - time[i-1]); a record
\* of one edge has integral 0.
C1_IntegralIsGapSum == (query.op = "integral" /\ Len(lb_time) >= 1 /\ NoNaN(sfh)) => (FEq(query.ret, F(Myr * OlderEdgeSum(lb_time, sfh, Len(lb_time)))) /\ (Len(lb_time) = 1 => FEq(query.ret, F(0))))

C1_Witness == /\ query.op = "integral"
              /\ Len(lb_time) = 3
              /\ StrictlyIncreasing(lb_time)
              /\ AllPositive(sfh)
              /\ sfh[2] # sfh[3]
              /\ FGt(query.ret, F(0))

\* C2: for a record with non-decreasing time and a query time t <= time[0],
\* integrated_sfh_at(t) equals `integral` exactly.
C2_AtOrBeforeFirstEdgeIsIntegral == (query.op = "integrated_sfh_at" /\ Len(lb_time) >= 1 /\ NonDecreasing(lb_time) /\ query.t <= lb_time[1]) => FEq(query.ret, integral(lb_time, sfh))

\* C3: for strictly increasing time and non-negative rates, and every pair of query
\* times t1 < t2, integrated_sfh_at(t1) >= integrated_sfh_at(t2), and
\* integrated_sfh_at(t1) > integrated_sfh_at(t2) when every rate is positive and
\* t2 <= max(time).
C3_Monotone == (query.op = "integrated_sfh_at" /\ StrictlyIncreasing(lb_time) /\ NonNegative(sfh)) => \A t2 \in QueryTimes : query.t < t2 => (FGe(query.ret, integrated_sfh_at(lb_time, sfh, t2)) /\ ((AllPositive(sfh) /\ (\E i \in 1..Len(lb_time) : t2 <= lb_time[i])) => FGt(query.ret, integrated_sfh_at(lb_time, sfh, t2))))

\* a query time t1 with an older query time t2 strictly inside the same bin, and
\* strictly more mass at t1
C3_Witness == /\ query.op = "integrated_sfh_at"
              /\ StrictlyIncreasing(lb_time)
              /\ AllPositive(sfh)
              /\ \E i \in 1..Len(lb_time) - 1 : lb_time[i] < query.t /\ query.t + 1 < lb_time[i + 1] /\ FGt(query.ret, integrated_sfh_at(lb_time, sfh, query.t + 1))

\* C7: whatever rates are NaN, `integral` and integrated_sfh_at(t) return a number
\* that is not NaN and equals 1e6 * the sum of the rate * width terms whose rate is
\* not NaN.
C7_NanSafe == /\ (query.op = "integral" => (~query.ret.nan /\ query.ret.val = Myr * OlderEdgeSum(lb_time, sfh, Len(lb_time))))
              /\ (query.op = "integrated_sfh_at" => (~query.ret.nan /\ query.ret.val = Myr * WindowSum(lb_time, sfh, query.t, Len(lb_time))))

\* a NaN rate and a number among the selected rates, and a mass that is not zero
C7_Witness == /\ query.op = "integrated_sfh_at"
              /\ Len(lb_time) = 3
              /\ query.t <= lb_time[2]
              /\ sfh[2].nan
              /\ ~sfh[3].nan
              /\ integral(lb_time, sfh).val # 0
              /\ query.ret.val # 0

\* C8: when no edge satisfies time >= t (so for every t on an empty record),
\* integrated_sfh_at(t) returns exactly 0.0 whatever the rates are.
C8_BeforeBirthIsZero == (query.op = "integrated_sfh_at" /\ (\A i \in 1..Len(lb_time) : lb_time[i] < query.t)) => query.ret = F(0)

C8_Witness == /\ query.op = "integrated_sfh_at"
              /\ Len(lb_time) >= 2
              /\ \A i \in 1..Len(lb_time) : lb_time[i] < query.t
              /\ \E i \in 1..Len(sfh) : FGt(sfh[i], F(0))
              /\ query.ret = F(0)

\* C10 as stated: each gap is multiplied by the rate stored at its younger edge
\* (the smaller look-back time), the rate of the oldest edge contributing nothing.
C10_YoungerEdgeRate == (query.op = "integral" /\ Len(lb_time) >= 1 /\ NoNaN(sfh)) => FEq(query.ret, F(Myr * YoungerEdgeSum(lb_time, sfh, Len(lb_time))))

\* C10 as amended: each gap is multiplied by the rate stored at its older edge (the
\* larger look-back time): changing the rate of edge i by d changes `integral` by
\* 1e6 * d * (the gap that ends at edge i), and the rate of the youngest edge
\* (time[0]) contributes nothing.
C10_OlderEdgeRate == query.op = "integral" => \A i \in 1..Len(lb_time) : \A v \in 0..MaxRate : ~sfh[i].nan => integral(lb_time, [sfh EXCEPT ![i] = F(v)]).val - query.ret.val = Myr * (v - sfh[i].val) * (IF i = 1 THEN 0 ELSE Gap(lb_time, i))

C10_Witness == /\ query.op = "integral"
               /\ Len(lb_time) = 3
               /\ StrictlyIncreasing(lb_time)
               /\ NoNaN(sfh)
               /\ sfh[1].val # sfh[2].val
               /\ sfh[2].val # sfh[3].val
               /\ Gap(lb_time, 2) # Gap(lb_time, 3)
               /\ query.ret.val # Myr * YoungerEdgeSum(lb_time, sfh, 3)

\* the j-th selected edge, in the order of the record
SelIndex(time, t, j) == CHOOSE i \in Selected(time, t) : Cardinality({m \in Selected(time, t) : m <= i}) = j

\* the last selected edge: for ascending time, the oldest one
LastSelected(time, t) == CHOOSE i \in Selected(time, t) : \A j \in Selected(time, t) : i >= j

\* width[j] for j >= 2 (0-based j >= 1): time_sel[j] - time_sel[j-1]
SelWidth(time, t, j) == time[SelIndex(time, t, j)] - time[SelIndex(time, t, j - 1)]

\* SUM over j = 1..n of rate_sel[j] * width[j], where width[1] is first_gap and the
\* terms with a NaN rate are left out
RECURSIVE SelectedSum(_, _, _, _, _)
SelectedSum(time, rates, t, first_gap, n) == IF n < 1 THEN 0 ELSE SelectedSum(time, rates, t, first_gap, n - 1) + (IF rates[SelIndex(time, t, n)].nan THEN 0 ELSE rates[SelIndex(time, t, n)].val * (IF n = 1 THEN first_gap ELSE SelWidth(time, t, n)))

\* C11 as stated: for ascending time and a query time t with at least one edge at
\* time >= t, integrated_sfh_at(t) is 1e6 * SUM_j rate_sel[j] * width[j] over the
\* edges with time >= t, where the width put in front, width[0], is (oldest
\* selected edge time - t).
C11_OldestEdgeGap == (query.op = "integrated_sfh_at" /\ NonDecreasing(lb_time) /\ Selected(lb_time, query.t) # {}) => FEq(query.ret, F(Myr * SelectedSum(lb_time, sfh, query.t, lb_time[LastSelected(lb_time, query.t)] - query.t, Cardinality(Selected(lb_time, query.t)))))

\* C11 as amended: the same sum, where the width put in front, width[0], is
\* (time_sel[0] - t), the distance from t to the first selected edge, which is the
\* youngest selected edge (the smallest look-back time >= t); rate_sel[j] is the
\* rate of the same edge as time_sel[j], not shifted.
C11_FirstEdgeGap == (query.op = "integrated_sfh_at" /\ NonDecreasing(lb_time) /\ Selected(lb_time, query.t) # {}) => FEq(query.ret, F(Myr * SelectedSum(lb_time, sfh, query.t, lb_time[FirstSelected(lb_time, query.t)] - query.t, Cardinality(Selected(lb_time, query.t)))))

\* a query time strictly between the first two edges of a record of three: two edges
\* selected, a partial bin in front, and rates and widths that tell the first
\* selected edge from the last and an aligned rate from a shifted one
C11_Witness == /\ query.op = "integrated_sfh_at"
               /\ Len(lb_time) = 3
               /\ StrictlyIncreasing(lb_time)
               /\ lb_time[1] < query.t
               /\ query.t < lb_time[2]
               /\ NoNaN(sfh)
               /\ AllPositive(sfh)
               /\ sfh[2] # sfh[3]
               /\ sfh[1] # sfh[2]
               /\ query.ret = F(Myr * (sfh[2].val * (lb_time[2] - query.t) + sfh[3].val * (lb_time[3] - lb_time[2])))
               /\ query.ret.val # Myr * (sfh[2].val * (lb_time[3] - query.t) + sfh[3].val * (lb_time[3] - lb_time[2]))

---------------------------------------------------------------------------
(* Properties of the resampling specification *)

IsNone(field) == Len(field) = 0

\* the most recent interpolate_sfh call returned
Returned == call.kind # "none" /\ ~call.raised

\* C4: an interpolate_sfh call that raises, in the claim's named case (bounds_error
\* is true and a query point lies outside [min(time), max(time)] of a record that
\* has edges), leaves the three cached fields exactly as they were before the call.
C4_FailedCallKeepsCache == [][(ncalls' = ncalls + 1 /\ call'.raised /\ call'.bounds_error /\ Len(lb_time) >= 1) => cache' = cache]_vars

\* C5: the three cached fields are all absent, or all present with one length and
\* assigned by one and the same call; they are all absent before the first call.
C5_CacheAllOrNothing == /\ (ncalls = 0 => (IsNone(interp_lb_time) /\ IsNone(interp_sfh) /\ IsNone(interp_err)))
                        /\ \/ (IsNone(interp_lb_time) /\ IsNone(interp_sfh) /\ IsNone(interp_err))
                           \/ (/\ ~IsNone(interp_lb_time) /\ ~IsNone(interp_sfh) /\ ~IsNone(interp_err)
                               /\ Len(interp_sfh[1]) = Len(interp_lb_time[1])
                               /\ Len(interp_err[1]) = Len(interp_lb_time[1])
                               /\ owner.interp_sfh = owner.interp_lb_time
                               /\ owner.interp_err = owner.interp_lb_time)

\* the smallest index i with time[i] >= q
NextEdge(time, q) == CHOOSE i \in 1..Len(time) : time[i] >= q /\ \A j \in 1..Len(time) : time[j] >= q => i <= j

DefaultCall == call.kind = "next" /\ call.bounds_error = FALSE /\ call.fill_value = F(0)

\* C6: on a record of at least one edge with strictly increasing time, a call with
\* the default parameters returns two arrays of the length of the grid; at each
\* query point q within [min(time), max(time)] they hold rate[i] and rate_error[i]
\* for the smallest i with time[i] >= q, and at each q outside, fill_value.
C6_NextStep == (call.kind # "none" /\ DefaultCall /\ Len(lb_time) >= 1 /\ StrictlyIncreasing(lb_time)) => (~call.raised /\ Len(call.ret[1]) = Len(call.grid) /\ Len(call.ret[2]) = Len(call.grid) /\ \A k \in 1..Len(call.grid) : IF lb_time[1] <= call.grid[k] /\ call.grid[k] <= lb_time[Len(lb_time)] THEN call.ret[1][k] = sfh[NextEdge(lb_time, call.grid[k])] /\ call.ret[2][k] = err[NextEdge(lb_time, call.grid[k])] ELSE call.ret[1][k] = call.fill_value /\ call.ret[2][k] = call.fill_value)

\* three edges, and a grid out of order holding a point beyond the oldest edge and
\* a point strictly between the first two edges
C6_Witness == /\ Returned
              /\ DefaultCall
              /\ Len(lb_time) = 3
              /\ StrictlyIncreasing(lb_time)
              /\ Len(call.grid) = 2
              /\ call.grid[1] > lb_time[3]
              /\ lb_time[1] < call.grid[2]
              /\ call.grid[2] < lb_time[2]
              /\ call.ret = <<(<<F(0), sfh[2]>>), (<<F(0), err[2]>>)>>

\* the state part of C9: after a call that returned, interp_lb_time is that call's
\* grid, interp_sfh and interp_err are the pair it returned, and they are the
\* interpolation of that grid with that call's parameters
C9_CacheIsLastCall == Returned => (/\ interp_lb_time = Some(call.grid)
                                   /\ interp_sfh = Some(call.ret[1])
                                   /\ interp_err = Some(call.ret[2])
                                   /\ call.ret[1] = _interpolate(call.grid, lb_time, sfh, call.kind, call.bounds_error, call.fill_value).val
                                   /\ call.ret[2] = _interpolate(call.grid, lb_time, err, call.kind, call.bounds_error, call.fill_value).val)

\* the step part of C9: a call that repeats the arguments of the call before it,
\* both returning, leaves the cache as it was
C9_RepeatKeepsCache == (Returned /\ ncalls' = ncalls + 1 /\ ~call'.raised /\ call'.grid = call.grid /\ call'.kind = call.kind /\ call'.bounds_error = call.bounds_error /\ call'.fill_value = call.fill_value) => cache' = cache

\* C9: last call wins. After any sequence of interpolate_sfh calls that ends with a
\* call that returned, the cache holds that call's grid and returned pair and
\* nothing of an earlier call; repeating a call leaves the cache unchanged.
C9_LastCallWins == [][C9_CacheIsLastCall' /\ C9_RepeatKeepsCache]_vars

\* a second call that returned, with another grid of another length than the first
C9_Witness == /\ Returned
              /\ ncalls = 2
              /\ owner = [interp_lb_time |-> 2, interp_sfh |-> 2, interp_err |-> 2]
              /\ Len(call.grid) = 1
              /\ Len(lb_time) = 2
              /\ interp_lb_time = Some(call.grid)
              /\ Len(interp_sfh[1]) = 1

---------------------------------------------------------------------------
(* Properties of the catalogue specification *)

\* cigale_sfh was called on the row and returned
CigaleReturned == query.op = "cigale_sfh"

\* the returned time sequence: an implicit 0 edge, then the nine time-bin values
CigaleTimeIsZeroThenTimeBins == /\ Len(query.ret[1]) = NBins + 1
                                /\ query.ret[1][1] = 0
                                /\ \A i \in 1..NBins : query.ret[1][i + 1] = galaxy.time_bin[i]

\* the three returned sequences have the same length
CigaleSameLength == Len(query.ret[2]) = Len(query.ret[1]) /\ Len(query.ret[3]) = Len(query.ret[1])

\* C12 as stated: for every catalogue row, the rate sequence cigale_sfh returns is
\* the integrated mass times [the first rate-bin value, then the time-bin values
\* 2..9 reused as rate proxies]; the time sequence is 0 and then the nine time-bin
\* values; the time, rate and error sequences have the same length.
C12_TimeBinProxies == CigaleReturned => (/\ CigaleTimeIsZeroThenTimeBins
                                         /\ query.ret[2][1] = FMul(galaxy.sfr_bin[1], galaxy.integrated)
                                         /\ \A i \in 2..NBins : query.ret[2][i] = FMul(F(galaxy.time_bin[i]), galaxy.integrated)
                                         /\ CigaleSameLength)

\* C12 as amended: the rate sequence is the integrated mass times [the first
\* rate-bin value, then all nine rate-bin values]: no time-bin value enters it;
\* the error sequence is the integrated mass times [the first rate-error value,
\* then all nine rate-error values]; the time sequence is 0 and then the nine
\* time-bin values; the three sequences have the same length, ten.
C12_RateBinsAfterFirst == CigaleReturned => (/\ Len(query.ret[1]) = NBins + 1
                                             /\ CigaleSameLength
                                             /\ CigaleTimeIsZeroThenTimeBins
                                             /\ query.ret[2][1] = FMul(galaxy.sfr_bin[1], galaxy.integrated)
                                             /\ \A i \in 1..NBins : query.ret[2][i + 1] = FMul(galaxy.sfr_bin[i], galaxy.integrated)
                                             /\ query.ret[3][1] = FMul(galaxy.sfr_bin_err[1], galaxy.integrated)
                                             /\ \A i \in 1..NBins : query.ret[3][i + 1] = FMul(galaxy.sfr_bin_err[i], galaxy.integrated))

\* a row of mass 2 whose second time-bin and second rate-bin columns were changed
\* to different values: element 2 of the returned rates is the first rate-bin
\* value again and element 3 the second rate-bin value, neither a time-bin value;
\* the record built from the result has ten edges
C12_Witness == /\ CigaleReturned
               /\ galaxy.integrated = F(2)
               /\ galaxy.time_bin[2] = 1
               /\ galaxy.sfr_bin[2] = F(0)
               /\ query.ret[2][2] = F(2 * (NBins + 1))
               /\ query.ret[2][3] = F(0)
               /\ query.ret[2][4] = F(2 * (NBins + 3))
               /\ query.ret[2][2] # FMul(F(galaxy.time_bin[2]), galaxy.integrated)
               /\ Len(lb_time) = NBins + 1
               /\ sfh = query.ret[2]

====
